---- MODULE Spec2Model ----
(***************************************************************************)
(* Model of the BLS extraction engine of global-macrodata-pipeline:        *)
(*   BLSAPITracker, BLSExtractor (extractors/bls.py) and                    *)
(*   BLSBatchProcessor (extractors/batch_processor.py).                     *)
(*                                                                         *)
(* Files on disk (quota file, progress file, consolidated dataset) survive *)
(* a process; everything else is the memory of one process, which is lost  *)
(* when the process returns or crashes.                                    *)
(*                                                                         *)
(* Spec follows runs of extract_series_data, SpecBatch process_batch       *)
(* called on its own, SpecValidate validate_series_batch, SpecPool the     *)
(* credential pool, SpecTracker the quota tracker across days, SpecMerge   *)
(* the merges into the consolidated dataset.                               *)
(***************************************************************************)
EXTENDS Integers, Sequences, FiniteSets, TLC

\* --------------------------------------------------- constants of bls.py
API_LIMIT == 500
MAX_RETRIES == 3

\* ------------------------------------------------------------------ bounds

\* batch_size of BLSBatchProcessor (50 by default), kept small
BatchSize == 2
\* series ids are 1..MaxSeries
MaxSeries == 3
\* credentials of the pool are 1..n for n <= MaxKeys
MaxKeys == 2
\* processes started in one behaviour
MaxRuns == 2
\* frames of get_series_data the interpreter allows before RecursionError:
\* enough for one more attempt than there are credentials
MaxDepth == MaxKeys + 1
\* merges into the consolidated dataset followed on their own
MaxMerges == 2
\* steps of the pipeline (get_pipeline_steps lists 8), numbered 1..MaxSteps
MaxSteps == 3
\* increment calls on one key of one tracker
MaxIncs == 2
\* days the clock goes through
MaxDay == 2

\* ------------------------------------------------------------------ values
Ids == 1..MaxSeries
PoolKeys == 1..MaxKeys
\* a credential of an earlier configuration, still listed in today's quota file
StaleKey == MaxKeys + 1
AllKeys == PoolKeys \cup {StaleKey}
\* get_available_api_key returns None
NoKey == MaxKeys + 2

EmptyMap == <<>>

\* dict.get(key, 0)
Get(d, k) == IF k \in DOMAIN d THEN d[k] ELSE 0

\* dict.update / d[k] = v
Update(d, e) ==
    [x \in (DOMAIN d) \cup (DOMAIN e) |-> IF x \in DOMAIN e THEN e[x] ELSE d[x]]

Put(d, k, v) == Update(d, [x \in {k} |-> v])

SeqToSet(s) == {s[j] : j \in 1..Len(s)}

\* An error message.  The code asks one thing of a message: whether its text
\* holds "daily threshold".  So a message is its text where the code fixes it
\* ("Series not found in API response"), "other" for every other text (the
\* API's messages, exception texts, texts that embed get_status()), and dt:
\* whether the text holds "daily threshold".
Msg(text, dt) == [text |-> text, dt |-> dt]
OtherError(dt) == Msg("other", dt)
SeriesNotFound == Msg("Series not found in API response", FALSE)

\* "daily threshold" in error_msg.lower()
HasDailyThreshold(m) == m.dt

\* ------------------------------------------------------------ BLSAPITracker
\* the comparison with <= in place of <
CanRequestLimit_Inclusive(n) == n <= API_LIMIT

\* the comparison of can_make_request: count < API_LIMIT
CanRequestLimit(n) == n < API_LIMIT

\* can_make_request(api_key)
can_make_request(c, k) == CanRequestLimit(Get(c, k))

\* can_make_request() with no key: any key the tracker lists is below the limit
can_make_request_any(c) == \E k \in DOMAIN c : CanRequestLimit(Get(c, k))

\* increment(api_key) setting the count to 1 whenever it runs line 62
increment_Reset(c, k) == Put(c, k, 1)

\* increment(api_key)
increment(c, k) == Put(c, k, Get(c, k) + 1)

\* initialize_key(api_key), for every key of the pool in order
initialize_keys(c, keys) ==
    [k \in (DOMAIN c) \cup SeqToSet(keys) |-> IF k \in DOMAIN c THEN c[k] ELSE 0]

\* the text of get_status() holds every last error: it holds "daily threshold"
\* when one of them does
StatusHasDailyThreshold(le) == \E k \in DOMAIN le : HasDailyThreshold(le[k])

\* the date of no document: the quota file does not exist
NoDate == 0

\* _save_count: the document written, d being self.today
QuotaDoc(d, c, le) == [date |-> d, counts |-> c, last_errors |-> le]

NoQuotaFile == QuotaDoc(NoDate, EmptyMap, EmptyMap)

\* _load_count with no except clause: a missing or unreadable file raises
LoadCount_Raising(file, unreadable, day) ==
    IF unreadable \/ file.date = NoDate
    THEN [raised |-> TRUE, counts |-> EmptyMap, last_errors |-> EmptyMap]
    ELSE IF file.date = day
    THEN [raised |-> FALSE, counts |-> file.counts, last_errors |-> file.last_errors]
    ELSE [raised |-> FALSE, counts |-> EmptyMap, last_errors |-> EmptyMap]

\* _load_count without the comparison of line 46
LoadCount_AnyDate(file, unreadable, day) ==
    IF unreadable \/ file.date = NoDate
    THEN [raised |-> FALSE, counts |-> EmptyMap, last_errors |-> EmptyMap]
    ELSE [raised |-> FALSE, counts |-> file.counts, last_errors |-> file.last_errors]

\* _load_count, lines 42-50: what the tracker holds after it, and whether an
\* exception left it.  FileNotFoundError (no file) and JSONDecodeError (a file
\* cut short by a write that did not finish) are passed over; a document of
\* another day is ignored.
LoadCount(file, unreadable, day) ==
    IF unreadable \/ file.date = NoDate
    THEN [raised |-> FALSE, counts |-> EmptyMap, last_errors |-> EmptyMap]
    ELSE IF file.date = day
    THEN [raised |-> FALSE, counts |-> file.counts, last_errors |-> file.last_errors]
    ELSE [raised |-> FALSE, counts |-> EmptyMap, last_errors |-> EmptyMap]

\* ------------------------------------------------------------- BLSExtractor
\* rotate_api_key: indices are 1..N here, 0..N-1 in the source
rotate_api_key(keys, idx) ==
    LET next_index == (idx % Len(keys)) + 1
    IN  IF next_index # idx THEN [ok |-> TRUE, idx |-> next_index]
        ELSE [ok |-> FALSE, idx |-> idx]

\* the while loop of get_available_api_key; probes counts the keys tested
RECURSIVE get_available_loop(_, _, _, _, _)
get_available_loop(keys, idx, c, initial_key, probes) ==
    IF can_make_request(c, keys[idx])
    THEN [key |-> keys[idx], idx |-> idx, probes |-> probes + 1]
    ELSE LET r == rotate_api_key(keys, idx)
         IN  IF ~r.ok \/ keys[r.idx] = initial_key
             THEN [key |-> NoKey, idx |-> r.idx, probes |-> probes + 1]
             ELSE get_available_loop(keys, r.idx, c, initial_key, probes + 1)

get_available_api_key(keys, idx, c) ==
    get_available_loop(keys, idx, c, keys[idx], 0)


\* ---------------------------------------------------------------- the API
\* What one POST can come to.  "transport": the request never reached the
\* server (raise_for_status / connection error).  "rejected": status
\* REQUEST_NOT_PROCESSED, dt telling whether the message holds "daily
\* threshold".  "no_results": a document without "Results".  "no_series":
\* "Results" without "series".  "series": a series list; series is the set of
\* batch ids the list holds before its first id that is not in the batch,
\* foreign tells whether the list holds such an id.
Response(kind, dt, series, foreign) ==
    [kind |-> kind, dt |-> dt, series |-> series, foreign |-> foreign]

Responses(b) ==
    {Response("transport", FALSE, {}, FALSE),
     Response("rejected", TRUE, {}, FALSE),
     Response("rejected", FALSE, {}, FALSE),
     Response("no_results", FALSE, {}, FALSE),
     Response("no_series", FALSE, {}, FALSE)}
    \cup {Response("series", FALSE, S, f) : S \in SUBSET SeqToSet(b), f \in BOOLEAN}

NoResponse == Response("none", FALSE, {}, FALSE)

\* the request reached the server
Reached(r) == r.kind \in {"rejected", "no_results", "no_series", "series"}

\* get_series_data reaches line 378, self.api_tracker.increment(api_key): the
\* request raised nothing, was not REQUEST_NOT_PROCESSED and holds "Results"
Counted(r) == r.kind \in {"no_series", "series"}

\* increment called whatever came of the request
CountsAfter_Always(c, k, r) == increment(c, k)

\* the counts after get_series_data has dealt with response r to its request
\* with key k, lines 358-378
CountsAfter(c, k, r) == IF Counted(r) THEN increment(c, k) ELSE c

\* ------------------------------------------------------- BLSBatchProcessor
NoError == Msg("", FALSE)
Success == [status |-> "success", error |-> NoError]
Failure(m) == [status |-> "error", error |-> m]

\* what process_batch got from get_series_data: the document, or the exception
\* and the response that raised it
Outcome(kind, msg, r) == [kind |-> kind, msg |-> msg, resp |-> r]
NoOutcome == Outcome("none", NoError, NoResponse)

\* the except branch of process_batch: every series of the batch is an error
AllFailed(b, m) == [s \in SeqToSet(b) |-> Failure(m)]

\* lines 60-87 without lines 89-104: the series the response left out get no entry
ResultsOfData_NoMissing(b, r) ==
    IF r.kind = "series"
    THEN IF r.foreign
         THEN AllFailed(b, OtherError(FALSE))
         ELSE [s \in r.series |-> Success]
    ELSE AllFailed(b, OtherError(FALSE))

\* lines 60-104: the result of a document that came back
ResultsOfData(b, r) ==
    IF r.kind = "series"
    THEN IF r.foreign
         THEN \* next() finds no series of the batch: StopIteration, caught at 106
              AllFailed(b, OtherError(FALSE))
         ELSE [s \in SeqToSet(b) |->
                 IF s \in r.series THEN Success
                 ELSE Failure(SeriesNotFound)]
    ELSE AllFailed(b, OtherError(FALSE))

\* consolidated_data as it stands when line 139 is reached
ConsolidatedOfData(r) == IF r.kind = "series" THEN r.series ELSE {}

batch_results_of(b, o) ==
    IF o.kind = "data" THEN ResultsOfData(b, o.resp) ELSE AllFailed(b, o.msg)

consolidated_data_of(o) ==
    IF o.kind = "data" THEN ConsolidatedOfData(o.resp) ELSE {}

\* lines 139-148 without lines 141-145: the file is rewritten with this batch only
MergeConsolidated_Replace(existing, S, payload) == [s \in S |-> payload]

\* lines 139-148: existing_data.update(consolidated_data); S the ids of
\* consolidated_data, payload what the response held for them
MergeConsolidated(existing, S, payload) == Update(existing, [s \in S |-> payload])

\* line 195 taking any error for a quota error
any_api_limit_AnyError(br) == \E s \in DOMAIN br : br[s].status = "error"

\* line 195
any_api_limit(br) == \E s \in DOMAIN br : HasDailyThreshold(br[s].error)

\* line 162 without the filter
FilterProcessed_None(inp, done) == inp

\* line 162: series_df[~series_df['series_id'].isin(processed_series)]
FilterProcessed(inp, done) == SelectSeq(inp, LAMBDA s : s \notin done)

\* line 160 keeping the successes only
processed_series_SuccessOnly(res) == {s \in DOMAIN res : res[s].status = "success"}

\* line 160
processed_series(res) == DOMAIN res

\* line 175 with a slice one element too long
BatchAt_Overlap(sl, off) ==
    SubSeq(sl, off + 1,
           IF off + BatchSize + 1 < Len(sl) THEN off + BatchSize + 1 ELSE Len(sl))

\* line 175: series_list[i:i + batch_size], i counted from 0
BatchAt(sl, off) ==
    SubSeq(sl, off + 1, IF off + BatchSize < Len(sl) THEN off + BatchSize ELSE Len(sl))

AllSeries == [j \in 1..MaxSeries |-> j]
\* the years a caller can pass as start_year and end_year
Years == {1, 2}
Pools == {[j \in 1..n |-> j] : n \in 1..MaxKeys}

\* ------------------------------------------------------------------- state
VARIABLES
    quotaFile,          \* .bls_api_count.json
    progressFile,       \* extraction_progress.json: id -> result
    consolidated,       \* consolidated_data.json: id -> its payload
    api_keys,           \* the credentials configured
    runs,               \* processes started so far
    pc,                 \* where the running process stands
    caller,             \* "extract": extract_series_data, "direct": process_batch alone
    current_key_index,
    counts,             \* BLSAPITracker.counts
    last_errors,        \* BLSAPITracker.last_errors
    series_df,          \* the series ids the script is run on
    max_batches_arg,    \* the max_batches the script passes, 0 for None
    max_batches,        \* 0 for None
    series_list,
    i,                  \* loop offset of extract_series_data
    results,
    batch,
    batch_results,
    stack,              \* api_key of every get_series_data frame entered
    resp,               \* the response in flight
    outcome,
    stop,               \* how extract_series_data left its loop
    probe,              \* what a call of get_available_api_key on its own returned
    lastCompleted,      \* the last process ran extract_series_data through all its batches
    prevDone,           \* this run follows such a run
    quotaFailed,        \* a batch of this run failed for want of any credential
    torn,               \* the files a write that did not finish has cut short
    clock,              \* the date of the day
    merged,             \* the merges into the consolidated dataset, oldest first
    today,              \* BLSAPITracker.today
    loaded,             \* the counts _load_count gave this tracker
    incs,               \* increment calls made on this tracker, by key
    answer,             \* what the last query of the tracker returned
    period,             \* start_year and end_year of the call
    retry_count,        \* retry_count of the validate_series_batch frame
    verdicts,           \* what validate_series_batch returned
    start_step,         \* run_pipeline's arguments
    end_step,
    script_exists,      \* the steps whose script file is on disk
    steps_to_run,       \* the steps run_pipeline selected
    step_index,         \* the place of the for loop in steps_to_run
    all_successful,
    pipeline_results,   \* "steps": step -> its entry, and "status"
    executed,           \* the scripts run as subprocesses, oldest first
    ppc                 \* where run_pipeline stands

files == <<quotaFile, progressFile, consolidated, api_keys, series_df, max_batches_arg>>
tracker == <<current_key_index, counts, last_errors>>
sched == <<max_batches, series_list, i, results, stop>>
pb == <<batch, batch_results, outcome>>
gsd == <<stack, resp>>
hist == <<lastCompleted, prevDone, quotaFailed>>
media == <<torn, clock, merged>>
audit == <<today, loaded, incs>>
calls == <<answer, period, retry_count, verdicts>>
pipe == <<start_step, end_step, script_exists, steps_to_run, step_index,
          all_successful, pipeline_results, executed, ppc>>
extraction == <<files, runs, pc, caller, tracker, sched, pb, gsd, hist, probe,
                media, audit, calls>>
vars == <<extraction, pipe>>

TypeOK ==
    /\ pc \in {"idle", "loop", "pb_enter", "gsd", "request", "response",
               "pb_handle", "pb_return", "returned", "probed", "tracking",
               "v_key", "v_request", "v_response", "v_returned"}
    /\ caller \in {"none", "extract", "direct", "validate"}
    /\ retry_count \in 0..MAX_RETRIES
    /\ runs \in 0..MaxRuns
    /\ current_key_index \in 1..Len(api_keys)
    /\ Len(stack) <= MaxDepth

\* The quota file a first process can find: none yet, or today's, written by
\* earlier processes: every pool key at its last request or exhausted, and
\* possibly a key of an earlier configuration that has quota left.
NoProbe == [key |-> NoKey, idx |-> 1, probes |-> 0, start |-> 1]

\* what a query of the tracker returned: ok for can_make_request, count and
\* remaining for get_status
Answer(op, k, ok, n, r) == [op |-> op, key |-> k, ok |-> ok, count |-> n, remaining |-> r]
NoAnswer == Answer("none", NoKey, FALSE, 0, 0)
Period(sy, ey) == [start_year |-> sy, end_year |-> ey]
NoPeriod == Period(0, 0)

InitQuotaFiles(keys) ==
    {NoQuotaFile}
    \cup {QuotaDoc(1, c, EmptyMap) : c \in [SeqToSet(keys) -> {API_LIMIT - 1, API_LIMIT}]}
    \cup {QuotaDoc(1, Put(c, StaleKey, API_LIMIT - 1), EmptyMap) :
            c \in [SeqToSet(keys) -> {API_LIMIT - 1, API_LIMIT}]}

\* end_step = None
NoEnd == -1
\* the "steps" entry of one step and the document run_pipeline builds
StepEntry(status, message) == [status |-> status, message |-> message]
PipelineResults(steps, status) == [steps |-> steps, status |-> status]

\* run_pipeline not called
NoPipeline ==
    /\ start_step = 1
    /\ end_step = NoEnd
    /\ script_exists = {}
    /\ steps_to_run = <<>>
    /\ step_index = 0
    /\ all_successful = TRUE
    /\ pipeline_results = PipelineResults(EmptyMap, "none")
    /\ executed = <<>>
    /\ ppc = "idle"

\* the memory of no process
NoProcess ==
    /\ NoPipeline
    /\ pc = "idle"
    /\ caller = "none"
    /\ current_key_index = 1
    /\ counts = EmptyMap
    /\ last_errors = EmptyMap
    /\ max_batches = 0
    /\ series_list = <<>>
    /\ i = 0
    /\ results = EmptyMap
    /\ stop = "none"
    /\ batch = <<>>
    /\ batch_results = EmptyMap
    /\ outcome = NoOutcome
    /\ stack = <<>>
    /\ resp = NoResponse
    /\ prevDone = FALSE
    /\ quotaFailed = FALSE
    /\ probe = NoProbe
    /\ today = NoDate
    /\ loaded = EmptyMap
    /\ incs = EmptyMap
    /\ answer = NoAnswer
    /\ period = NoPeriod
    /\ retry_count = 0
    /\ verdicts = EmptyMap

Init ==
    /\ api_keys \in Pools
    /\ series_df = AllSeries
    /\ max_batches_arg \in {0, 1}
    /\ quotaFile \in InitQuotaFiles(api_keys)
    /\ progressFile = EmptyMap
    /\ consolidated = EmptyMap
    /\ runs = 0
    /\ lastCompleted = FALSE
    /\ torn = {}
    /\ clock = 1
    /\ merged = <<>>
    /\ NoProcess


\* ----------------------------------------------------------------- actions
\* set_error(api_key, msg) in the except handler of every get_series_data
\* frame the exception passes through
Unwind(le, stk, m) ==
    [k \in (DOMAIN le) \cup SeqToSet(stk) |-> IF k \in SeqToSet(stk) THEN m ELSE le[k]]

\* BLSAPITracker.__init__: _load_count on the quota file as it stands
Loaded == LoadCount(quotaFile, "quota" \in torn, clock)

\* _load_count, then initialize_key for every key (BLSExtractor.__init__)
LoadedCounts == initialize_keys(Loaded.counts, api_keys)

\* initialize_key saves when the key is new: the quota file after the constructor
FileAfterConstruct ==
    IF DOMAIN LoadedCounts = DOMAIN Loaded.counts THEN quotaFile
    ELSE QuotaDoc(clock, LoadedCounts, Loaded.last_errors)

TornAfterConstruct ==
    IF DOMAIN LoadedCounts = DOMAIN Loaded.counts THEN torn ELSE torn \ {"quota"}

\* A new process: BLSExtractor(), BLSBatchProcessor(extractor)
Construct ==
    /\ pc = "idle"
    /\ runs < MaxRuns
    /\ ~Loaded.raised
    /\ runs' = runs + 1
    /\ today' = clock
    /\ counts' = LoadedCounts
    /\ last_errors' = Loaded.last_errors
    /\ loaded' = Loaded.counts
    /\ incs' = EmptyMap
    /\ quotaFile' = FileAfterConstruct
    /\ torn' = TornAfterConstruct
    /\ current_key_index' = 1
    /\ UNCHANGED <<consolidated, api_keys, series_df, max_batches_arg, probe,
                   clock, merged, answer, retry_count, verdicts>>

\* extract_series_data, lines 154-170
StartRun ==
    /\ "progress" \notin torn
    /\ Construct
    /\ period' = Period(1, 2)
    /\ caller' = "extract"
    /\ max_batches' = max_batches_arg
    /\ results' = progressFile
    /\ series_list' = FilterProcessed(series_df, processed_series(progressFile))
    /\ i' = 0
    /\ pc' = "loop"
    /\ prevDone' = lastCompleted
    /\ lastCompleted' = FALSE
    /\ UNCHANGED <<progressFile, stop, pb, gsd, quotaFailed>>
    /\ UNCHANGED pipe

\* process_batch called on its own
CallProcessBatch(b, sy, ey) ==
    /\ Construct
    /\ period' = Period(sy, ey)
    /\ caller' = "direct"
    /\ batch' = b
    /\ pc' = "pb_enter"
    /\ lastCompleted' = FALSE
    /\ UNCHANGED <<progressFile, sched, batch_results, outcome, gsd, prevDone, quotaFailed>>
    /\ UNCHANGED pipe

\* the head of the for loop, lines 174-189
LoopHead ==
    /\ pc = "loop"
    /\ IF i >= Len(series_list)
       THEN /\ stop' = "done"
            /\ pc' = "returned"
            /\ UNCHANGED batch
       ELSE IF max_batches # 0 /\ (i \div BatchSize) + 1 > max_batches
       THEN /\ stop' = "max_batches"
            /\ pc' = "returned"
            /\ batch' = BatchAt(series_list, i)
       ELSE IF ~can_make_request_any(counts)
       THEN /\ stop' = "quota"
            /\ pc' = "returned"
            /\ batch' = BatchAt(series_list, i)
       ELSE /\ pc' = "pb_enter"
            /\ batch' = BatchAt(series_list, i)
            /\ UNCHANGED stop
    /\ UNCHANGED <<files, runs, caller, tracker, max_batches, series_list, i,
                   results, batch_results, outcome, gsd, hist, probe>>
    /\ UNCHANGED <<media, audit, calls>>
    /\ UNCHANGED pipe

\* process_batch, lines 35-55
EnterProcessBatch ==
    /\ pc = "pb_enter"
    /\ IF ~can_make_request_any(counts)
       THEN /\ batch_results' =
                AllFailed(batch, OtherError(StatusHasDailyThreshold(last_errors)))
            /\ outcome' = Outcome("limit", NoError, NoResponse)
            /\ pc' = "pb_return"
       ELSE /\ pc' = "gsd"
            /\ batch_results' = EmptyMap
            /\ outcome' = NoOutcome
    /\ UNCHANGED <<files, runs, caller, tracker, sched, batch, gsd, hist, probe>>
    /\ UNCHANGED <<media, audit, calls>>
    /\ UNCHANGED pipe

\* an exception leaves get_series_data: every frame's handler records it
Raise(m, stk) ==
    /\ last_errors' = Unwind(last_errors, stk, m)
    /\ outcome' = Outcome("exception", m, resp)
    /\ stack' = <<>>
    /\ resp' = NoResponse
    /\ pc' = "pb_handle"

\* get_series_data, lines 340-356: one frame picks its credential
SelectKey ==
    /\ pc = "gsd"
    /\ LET r == get_available_api_key(api_keys, current_key_index, counts)
       IN  /\ current_key_index' = r.idx
           /\ IF r.key = NoKey
              THEN /\ Raise(OtherError(StatusHasDailyThreshold(last_errors)), stack)
                   /\ quotaFile' = IF stack = <<>> THEN quotaFile
                                   ELSE QuotaDoc(today, counts, last_errors')
                   /\ quotaFailed' = (caller = "extract")
              ELSE /\ stack' = Append(stack, r.key)
                   /\ pc' = "request"
                   /\ UNCHANGED <<last_errors, outcome, resp, quotaFile, quotaFailed>>
    /\ UNCHANGED <<progressFile, consolidated, api_keys, series_df, max_batches_arg, runs, caller, counts, sched,
                   batch, batch_results, lastCompleted, prevDone, probe>>
    /\ UNCHANGED <<media, audit, calls>>
    /\ UNCHANGED pipe

\* line 359: the POST and what comes of it
SendRequest ==
    /\ pc = "request"
    /\ \E r \in Responses(batch) : resp' = r
    /\ pc' = "response"
    /\ UNCHANGED <<files, runs, caller, tracker, sched, pb, stack, hist, probe>>
    /\ UNCHANGED <<media, audit, calls>>
    /\ UNCHANGED pipe

\* lines 360-406
HandleResponse ==
    /\ pc = "response"
    /\ LET api_key == stack[Len(stack)]
       IN  CASE resp.kind = "transport" ->
                  /\ Raise(OtherError(FALSE), stack)
                  /\ UNCHANGED <<current_key_index, quotaFailed>>
             [] resp.kind = "rejected" ->
                  LET m == OtherError(resp.dt)
                      le1 == Put(last_errors, api_key, m)
                      rot == rotate_api_key(api_keys, current_key_index)
                  IN  IF HasDailyThreshold(m) /\ rot.ok
                      THEN /\ current_key_index' = rot.idx
                           /\ IF Len(stack) >= MaxDepth
                              THEN /\ Raise(OtherError(FALSE), stack)
                              ELSE /\ last_errors' = le1
                                   /\ pc' = "gsd"
                                   /\ resp' = NoResponse
                                   /\ UNCHANGED <<stack, outcome>>
                           /\ UNCHANGED quotaFailed
                      ELSE /\ Raise(m, stack)
                           /\ quotaFailed' =
                                IF HasDailyThreshold(m) /\ caller = "extract"
                                THEN TRUE ELSE quotaFailed
                           /\ UNCHANGED current_key_index
             [] resp.kind = "no_results" ->
                  /\ Raise(OtherError(FALSE), stack)
                  /\ UNCHANGED <<current_key_index, quotaFailed>>
             [] OTHER ->
                  /\ outcome' = Outcome("data", NoError, resp)
                  /\ stack' = <<>>
                  /\ resp' = NoResponse
                  /\ pc' = "pb_handle"
                  /\ UNCHANGED <<last_errors, current_key_index, quotaFailed>>
    /\ counts' = CountsAfter(counts, stack[Len(stack)], resp)
    /\ incs' = IF Counted(resp)
               THEN Put(incs, stack[Len(stack)], Get(incs, stack[Len(stack)]) + 1)
               ELSE incs
    /\ quotaFile' = QuotaDoc(today, counts', last_errors')
    /\ UNCHANGED <<progressFile, consolidated, api_keys, series_df, max_batches_arg, runs, caller, sched,
                   batch, batch_results, lastCompleted, prevDone, probe>>
    /\ UNCHANGED <<media, today, loaded, calls>>
    /\ UNCHANGED pipe

\* process_batch, lines 60-150
FinishProcessBatch ==
    /\ pc = "pb_handle"
    /\ consolidated_data_of(outcome) # {} => "consolidated" \notin torn
    /\ batch_results' = batch_results_of(batch, outcome)
    /\ consolidated' =
         IF consolidated_data_of(outcome) # {}
         THEN MergeConsolidated(consolidated, consolidated_data_of(outcome), "data")
         ELSE consolidated
    /\ pc' = "pb_return"
    /\ UNCHANGED <<quotaFile, progressFile, api_keys, series_df, max_batches_arg, runs, caller, tracker, sched,
                   batch, outcome, gsd, hist, probe>>
    /\ UNCHANGED <<media, audit, calls>>
    /\ UNCHANGED pipe

\* extract_series_data, lines 194-212
AfterBatch ==
    /\ pc = "pb_return"
    /\ caller = "extract"
    /\ results' = Update(results, batch_results)
    /\ IF any_api_limit(batch_results)
       THEN /\ stop' = "api_limit"
            /\ pc' = "returned"
            /\ UNCHANGED <<progressFile, i>>
       ELSE /\ progressFile' = results'
            /\ i' = i + BatchSize
            /\ pc' = "loop"
            /\ UNCHANGED stop
    /\ UNCHANGED <<quotaFile, consolidated, api_keys, series_df, max_batches_arg, runs, caller, tracker,
                   max_batches, series_list, pb, gsd, hist, probe>>
    /\ UNCHANGED <<media, audit, calls>>
    /\ UNCHANGED pipe

Forget ==
    /\ pc' = "idle"
    /\ caller' = "none"
    /\ current_key_index' = 1
    /\ counts' = EmptyMap
    /\ last_errors' = EmptyMap
    /\ max_batches' = 0
    /\ series_list' = <<>>
    /\ i' = 0
    /\ results' = EmptyMap
    /\ stop' = "none"
    /\ batch' = <<>>
    /\ batch_results' = EmptyMap
    /\ outcome' = NoOutcome
    /\ stack' = <<>>
    /\ resp' = NoResponse
    /\ prevDone' = FALSE
    /\ quotaFailed' = FALSE
    /\ probe' = NoProbe
    /\ today' = NoDate
    /\ loaded' = EmptyMap
    /\ incs' = EmptyMap
    /\ answer' = NoAnswer
    /\ period' = NoPeriod
    /\ retry_count' = 0
    /\ verdicts' = EmptyMap

\* line 221: extract_series_data returns and the process ends
Return ==
    /\ pc = "returned"
    /\ lastCompleted' = (stop = "done")
    /\ Forget
    /\ UNCHANGED <<files, runs, media>>
    /\ UNCHANGED pipe

\* process_batch called on its own returns
ReturnDirect ==
    /\ pc = "pb_return"
    /\ caller = "direct"
    /\ Forget
    /\ UNCHANGED <<files, runs, lastCompleted, media>>
    /\ UNCHANGED pipe

\* the process is killed
Crash ==
    /\ pc \notin {"idle", "returned"}
    /\ Forget
    /\ UNCHANGED <<files, runs, lastCompleted, media>>
    /\ UNCHANGED pipe

\* Every file is rewritten with open(path, 'w') and json.dump: open empties
\* the file, and a process killed before json.dump has finished leaves it
\* empty or cut short, which json.load cannot read.

\* killed in lines 147-148, rewriting the consolidated dataset
CrashWritingConsolidated ==
    /\ pc = "pb_handle"
    /\ consolidated_data_of(outcome) # {}
    /\ "consolidated" \notin torn
    /\ consolidated' = EmptyMap
    /\ torn' = torn \cup {"consolidated"}
    /\ Forget
    /\ UNCHANGED <<quotaFile, progressFile, api_keys, series_df, max_batches_arg,
                   runs, lastCompleted, clock, merged>>
    /\ UNCHANGED pipe

\* killed in lines 207-208, rewriting the progress file
CrashWritingProgress ==
    /\ pc = "pb_return"
    /\ caller = "extract"
    /\ ~any_api_limit(batch_results)
    /\ progressFile' = EmptyMap
    /\ torn' = torn \cup {"progress"}
    /\ Forget
    /\ UNCHANGED <<quotaFile, consolidated, api_keys, series_df, max_batches_arg,
                   runs, lastCompleted, clock, merged>>
    /\ UNCHANGED pipe

\* killed in _save_count (bls.py lines 52-58), called by increment or set_error
CrashWritingQuota ==
    /\ pc = "response"
    /\ quotaFile' = NoQuotaFile
    /\ torn' = torn \cup {"quota"}
    /\ Forget
    /\ UNCHANGED <<progressFile, consolidated, api_keys, series_df, max_batches_arg,
                   runs, lastCompleted, clock, merged>>
    /\ UNCHANGED pipe

\* extract_series_data, line 158: json.load of a progress file cut short raises
\* before the try of line 164; the constructors have run
StartRunFails ==
    /\ pc = "idle"
    /\ runs < MaxRuns
    /\ ~Loaded.raised
    /\ "progress" \in torn
    /\ runs' = runs + 1
    /\ quotaFile' = FileAfterConstruct
    /\ torn' = TornAfterConstruct
    /\ lastCompleted' = FALSE
    /\ UNCHANGED <<progressFile, consolidated, api_keys, series_df, max_batches_arg,
                   pc, caller, tracker, sched, pb, gsd, prevDone, quotaFailed, probe,
                   clock, merged, audit, calls>>
    /\ UNCHANGED pipe

\* process_batch, line 143: json.load of a consolidated file cut short raises
\* outside the try of process_batch; extract_series_data saves its results
\* (lines 214-219) and raises again
FinishProcessBatchFails ==
    /\ pc = "pb_handle"
    /\ consolidated_data_of(outcome) # {}
    /\ "consolidated" \in torn
    /\ progressFile' = IF caller = "extract" THEN results ELSE progressFile
    /\ Forget
    /\ UNCHANGED <<quotaFile, consolidated, api_keys, series_df, max_batches_arg,
                   runs, lastCompleted, media>>
    /\ UNCHANGED pipe

Next ==
    \/ StartRun
    \/ StartRunFails
    \/ LoopHead
    \/ EnterProcessBatch
    \/ SelectKey
    \/ SendRequest
    \/ HandleResponse
    \/ FinishProcessBatch
    \/ FinishProcessBatchFails
    \/ AfterBatch
    \/ Return
    \/ Crash
    \/ CrashWritingConsolidated
    \/ CrashWritingProgress
    \/ CrashWritingQuota

Spec == Init /\ [][Next]_vars

\* process_batch called on its own, on the first batch of series_df
NextBatch ==
    \/ \E sy, ey \in Years : CallProcessBatch(BatchAt(series_df, 0), sy, ey)
    \/ EnterProcessBatch
    \/ SelectKey
    \/ SendRequest
    \/ HandleResponse
    \/ FinishProcessBatch
    \/ FinishProcessBatchFails
    \/ ReturnDirect
    \/ Crash
    \/ CrashWritingConsolidated
    \/ CrashWritingQuota

SpecBatch == Init /\ [][NextBatch]_vars


\* ------------------------------------------- the credential pool on its own
\* Any list of keys the constructor accepts (api_keys may repeat a key), any
\* current index, every key at its last request or exhausted.
KeyLists == UNION {[1..n -> AllKeys] : n \in 1..(MaxKeys + 1)}

InitPool ==
    /\ NoPipeline
    /\ api_keys \in KeyLists
    /\ current_key_index \in 1..Len(api_keys)
    /\ counts \in [SeqToSet(api_keys) -> {API_LIMIT - 1, API_LIMIT}]
    /\ quotaFile = QuotaDoc(1, counts, EmptyMap)
    /\ torn = {}
    /\ clock = 1
    /\ merged = <<>>
    /\ today = 1
    /\ loaded = counts
    /\ incs = EmptyMap
    /\ answer = NoAnswer
    /\ period = NoPeriod
    /\ retry_count = 0
    /\ verdicts = EmptyMap
    /\ last_errors = EmptyMap
    /\ series_df = AllSeries
    /\ max_batches_arg = 0
    /\ progressFile = EmptyMap
    /\ consolidated = EmptyMap
    /\ runs = 1
    /\ lastCompleted = FALSE
    /\ pc = "idle"
    /\ caller = "none"
    /\ max_batches = 0
    /\ series_list = <<>>
    /\ i = 0
    /\ results = EmptyMap
    /\ stop = "none"
    /\ batch = <<>>
    /\ batch_results = EmptyMap
    /\ outcome = NoOutcome
    /\ stack = <<>>
    /\ resp = NoResponse
    /\ prevDone = FALSE
    /\ quotaFailed = FALSE
    /\ probe = NoProbe

\* api_key = self.get_available_api_key()
ProbeKey ==
    /\ pc = "idle"
    /\ LET r == get_available_api_key(api_keys, current_key_index, counts)
       IN  /\ probe' = [key |-> r.key, idx |-> r.idx, probes |-> r.probes,
                        start |-> current_key_index]
           /\ current_key_index' = r.idx
    /\ pc' = "probed"
    /\ UNCHANGED <<files, runs, caller, counts, last_errors, sched, pb, gsd, hist>>
    /\ UNCHANGED <<media, audit, calls>>
    /\ UNCHANGED pipe

\* a request with the key found succeeds: increment(api_key)
UseKey ==
    /\ pc = "probed"
    /\ counts' = IF probe.key = NoKey THEN counts ELSE increment(counts, probe.key)
    /\ incs' = IF probe.key = NoKey THEN incs
               ELSE Put(incs, probe.key, Get(incs, probe.key) + 1)
    /\ quotaFile' = QuotaDoc(today, counts', last_errors)
    /\ probe' = NoProbe
    /\ pc' = "idle"
    /\ UNCHANGED <<progressFile, consolidated, api_keys, series_df, max_batches_arg,
                   runs, caller, current_key_index, last_errors, sched, pb, gsd, hist>>
    /\ UNCHANGED <<media, today, loaded, calls>>
    /\ UNCHANGED pipe

\* rotate_api_key() called on its own (validate_all_series, line 277)
\* probe keeps the index the rotations in a row started from and their number,
\* answer what the last one returned
RotateKey ==
    /\ pc = "idle"
    /\ probe.probes <= Len(api_keys)
    /\ LET r == rotate_api_key(api_keys, current_key_index)
       IN  /\ current_key_index' = r.idx
           /\ answer' = Answer("rotate", api_keys[r.idx], r.ok, 0, 0)
           /\ probe' = [key |-> NoKey, idx |-> r.idx, probes |-> probe.probes + 1,
                        start |-> IF probe.probes = 0 THEN current_key_index
                                  ELSE probe.start]
    /\ UNCHANGED <<files, runs, pc, caller, counts, last_errors, sched, pb, gsd, hist>>
    /\ UNCHANGED <<media, audit, period, retry_count, verdicts>>
    /\ UNCHANGED pipe

NextPool ==
    \/ ProbeKey
    \/ UseKey
    \/ RotateKey

SpecPool == InitPool /\ [][NextPool]_vars


\* -------------------------------------------------- validate_series_batch
\* an id of a series that is not in the batch
ForeignId == MaxSeries + 1

\* lines 197-209 and 232: True for every series of the response, False for the
\* ids of the batch it leaves out.  A response with a foreign id can hold batch
\* ids after it, which r.series does not list.
ValidationResults(b, r) ==
    IF r.kind = "series" /\ r.foreign
    THEN {[s \in SeqToSet(b) \cup {ForeignId} |-> s \in T \cup {ForeignId}] :
            T \in {T \in SUBSET SeqToSet(b) : r.series \subseteq T}}
    ELSE {[s \in SeqToSet(b) |-> r.kind = "series" /\ s \in r.series]}

AllInvalid(b) == [s \in SeqToSet(b) |-> FALSE]

\* validate_series_batch(series_batch) called by a new process
CallValidate(b) ==
    /\ Construct
    /\ caller' = "validate"
    /\ batch' = b
    /\ pc' = "v_key"
    /\ lastCompleted' = FALSE
    /\ UNCHANGED <<progressFile, sched, batch_results, outcome, gsd, prevDone,
                   quotaFailed, period>>
    /\ UNCHANGED pipe

\* lines 173-177
ValidateSelectKey ==
    /\ pc = "v_key"
    /\ LET r == get_available_api_key(api_keys, current_key_index, counts)
       IN  /\ current_key_index' = r.idx
           /\ IF r.key = NoKey
              THEN /\ verdicts' = AllInvalid(batch)
                   /\ pc' = "v_returned"
                   /\ UNCHANGED stack
              ELSE /\ stack' = <<r.key>>
                   /\ pc' = "v_request"
                   /\ UNCHANGED verdicts
    /\ UNCHANGED <<files, runs, caller, counts, last_errors, sched, pb, resp, hist,
                   probe, media, audit, answer, period, retry_count>>
    /\ UNCHANGED pipe

\* line 193
ValidateSend ==
    /\ pc = "v_request"
    /\ \E r \in Responses(batch) : resp' = r
    /\ pc' = "v_response"
    /\ UNCHANGED <<files, runs, caller, tracker, sched, pb, stack, hist, probe,
                   media, audit, calls>>
    /\ UNCHANGED pipe

\* lines 194-244
ValidateHandle ==
    /\ pc = "v_response"
    /\ LET api_key == stack[1]
       IN  IF resp.kind \in {"transport", "rejected"}
           THEN /\ last_errors' = Put(last_errors, api_key, OtherError(resp.dt))
                /\ IF retry_count < MAX_RETRIES
                   THEN /\ retry_count' = retry_count + 1
                        /\ pc' = "v_key"
                        /\ UNCHANGED verdicts
                   ELSE /\ verdicts' = IF resp.kind = "transport"
                                       THEN AllInvalid(batch) ELSE EmptyMap
                        /\ pc' = "v_returned"
                        /\ UNCHANGED retry_count
                /\ UNCHANGED <<counts, incs>>
           ELSE /\ verdicts' \in ValidationResults(batch, resp)
                /\ counts' = increment(counts, api_key)
                /\ incs' = Put(incs, api_key, Get(incs, api_key) + 1)
                /\ pc' = "v_returned"
                /\ UNCHANGED <<last_errors, retry_count>>
    /\ quotaFile' = QuotaDoc(today, counts', last_errors')
    /\ resp' = NoResponse
    /\ UNCHANGED <<progressFile, consolidated, api_keys, series_df, max_batches_arg,
                   runs, caller, current_key_index, sched, pb, stack, hist, probe,
                   media, today, loaded, answer, period>>
    /\ UNCHANGED pipe

\* the caller has the verdicts and the process ends
ReturnValidate ==
    /\ pc = "v_returned"
    /\ Forget
    /\ UNCHANGED <<files, runs, lastCompleted, media>>
    /\ UNCHANGED pipe

NextValidate ==
    \/ CallValidate(BatchAt(series_df, 0))
    \/ ValidateSelectKey
    \/ ValidateSend
    \/ ValidateHandle
    \/ ReturnValidate

SpecValidate == Init /\ [][NextValidate]_vars


\* ------------------------------------------ BLSAPITracker on its own
\* One process at a time holds one tracker (pc = "tracking") and calls its
\* methods in any order with either of two keys; the day can change under it.
TrackerKeys == {1, 2}

\* no quota file yet, or today's with both keys at their last request
InitTracker ==
    /\ api_keys = <<1, 2>>
    /\ series_df = AllSeries
    /\ max_batches_arg = 0
    /\ quotaFile \in {NoQuotaFile,
                       QuotaDoc(1, [k \in TrackerKeys |-> API_LIMIT - 1], EmptyMap)}
    /\ progressFile = EmptyMap
    /\ consolidated = EmptyMap
    /\ runs = 0
    /\ lastCompleted = FALSE
    /\ torn = {}
    /\ clock = 1
    /\ merged = <<>>
    /\ NoProcess

\* BLSAPITracker(), lines 35-50
TrackerNew ==
    /\ pc = "idle"
    /\ runs < MaxRuns
    /\ runs' = runs + 1
    /\ IF Loaded.raised
       THEN UNCHANGED <<pc, counts, last_errors, audit>>
       ELSE /\ pc' = "tracking"
            /\ today' = clock
            /\ counts' = Loaded.counts
            /\ last_errors' = Loaded.last_errors
            /\ loaded' = Loaded.counts
            /\ incs' = EmptyMap
    /\ UNCHANGED <<files, caller, current_key_index, sched, pb, gsd, hist, probe,
                   media, calls>>
    /\ UNCHANGED pipe

\* increment(api_key), lines 60-65
TrackerIncrement(k) ==
    /\ pc = "tracking"
    /\ Get(incs, k) < MaxIncs
    /\ counts' = increment(counts, k)
    /\ incs' = Put(incs, k, Get(incs, k) + 1)
    /\ quotaFile' = QuotaDoc(today, counts', last_errors)
    /\ torn' = torn \ {"quota"}
    /\ UNCHANGED <<progressFile, consolidated, api_keys, series_df, max_batches_arg,
                   runs, pc, caller, current_key_index, last_errors, sched, pb, gsd,
                   hist, probe, clock, merged, today, loaded, calls>>
    /\ UNCHANGED pipe

\* set_error(api_key, error_message), lines 77-80
TrackerSetError(k, m) ==
    /\ pc = "tracking"
    /\ last_errors' = Put(last_errors, k, m)
    /\ quotaFile' = QuotaDoc(today, counts, last_errors')
    /\ torn' = torn \ {"quota"}
    /\ UNCHANGED <<progressFile, consolidated, api_keys, series_df, max_batches_arg,
                   runs, pc, caller, current_key_index, counts, sched, pb, gsd,
                   hist, probe, clock, merged, audit, calls>>
    /\ UNCHANGED pipe

\* initialize_key(api_key), lines 97-102
TrackerInitializeKey(k) ==
    /\ pc = "tracking"
    /\ IF k \in DOMAIN counts
       THEN UNCHANGED <<counts, quotaFile, torn>>
       ELSE /\ counts' = Put(counts, k, 0)
            /\ quotaFile' = QuotaDoc(today, counts', last_errors)
            /\ torn' = torn \ {"quota"}
    /\ UNCHANGED <<progressFile, consolidated, api_keys, series_df, max_batches_arg,
                   runs, pc, caller, current_key_index, last_errors, sched, pb, gsd,
                   hist, probe, clock, merged, audit, calls>>
    /\ UNCHANGED pipe

\* can_make_request(api_key), can_make_request() and get_status(api_key),
\* lines 67-95: the tracker is read, the caller keeps the answer
TrackerQuery(op, k) ==
    /\ pc = "tracking"
    /\ answer' =
         IF op = "get_status"
         THEN Answer(op, k, FALSE, Get(counts, k), API_LIMIT - Get(counts, k))
         ELSE IF k = NoKey
         THEN Answer(op, k, can_make_request_any(counts), 0, 0)
         ELSE Answer(op, k, can_make_request(counts, k), 0, 0)
    /\ UNCHANGED <<files, runs, pc, caller, tracker, sched, pb, gsd, hist, probe,
                   media, audit, period, retry_count, verdicts>>
    /\ UNCHANGED pipe

\* the process is killed in _save_count (lines 52-58), called by increment,
\* set_error or initialize_key: open(..., 'w') has emptied the quota file
TrackerCrashInSave ==
    /\ pc = "tracking"
    /\ quotaFile' = NoQuotaFile
    /\ torn' = torn \cup {"quota"}
    /\ Forget
    /\ UNCHANGED <<progressFile, consolidated, api_keys, series_df, max_batches_arg,
                   runs, lastCompleted, clock, merged>>
    /\ UNCHANGED pipe

\* the process ends
TrackerExit ==
    /\ pc = "tracking"
    /\ Forget
    /\ UNCHANGED <<files, runs, lastCompleted, media>>
    /\ UNCHANGED pipe

\* the date changes
Midnight ==
    /\ clock < MaxDay
    /\ clock' = clock + 1
    /\ UNCHANGED <<files, runs, pc, caller, tracker, sched, pb, gsd, hist, probe,
                   torn, merged, audit, calls>>
    /\ UNCHANGED pipe

NextTracker ==
    \/ TrackerNew
    \/ \E k \in TrackerKeys : TrackerIncrement(k)
    \/ \E k \in TrackerKeys : TrackerSetError(k, OtherError(FALSE))
    \/ \E k \in TrackerKeys : TrackerInitializeKey(k)
    \/ \E k \in TrackerKeys \cup {NoKey} : TrackerQuery("can_make_request", k)
    \/ \E k \in TrackerKeys : TrackerQuery("get_status", k)
    \/ TrackerCrashInSave
    \/ TrackerExit
    \/ Midnight

SpecTracker == InitTracker /\ [][NextTracker]_vars


\* ------------------------------------ the example scenario of the spec
\* Three credentials, five batches of identifiers, an API that serves every
\* request in full, no crash.  Every credential has the same number of
\* requests left today: two (six requests in all) or one (three in all).
ScenarioKeys == <<1, 2, 3>>
ScenarioSeries == [j \in 1..(5 * BatchSize) |-> j]

InitScenario ==
    /\ api_keys = ScenarioKeys
    /\ series_df = ScenarioSeries
    /\ max_batches_arg = 0
    /\ \E left \in {1, 2} :
          quotaFile = QuotaDoc(1, [k \in SeqToSet(ScenarioKeys) |-> API_LIMIT - left],
                               EmptyMap)
    /\ progressFile = EmptyMap
    /\ consolidated = EmptyMap
    /\ runs = 0
    /\ lastCompleted = FALSE
    /\ torn = {}
    /\ clock = 1
    /\ merged = <<>>
    /\ NoProcess

\* line 359: the API holds every series asked for
ServeRequest ==
    /\ pc = "request"
    /\ resp' = Response("series", FALSE, SeqToSet(batch), FALSE)
    /\ pc' = "response"
    /\ UNCHANGED <<files, runs, caller, tracker, sched, pb, stack, hist, probe,
                   media, audit, calls>>
    /\ UNCHANGED pipe

NextScenario ==
    \/ StartRun
    \/ LoopHead
    \/ EnterProcessBatch
    \/ SelectKey
    \/ ServeRequest
    \/ HandleResponse
    \/ FinishProcessBatch
    \/ AfterBatch
    \/ Return
    \/ Midnight

SpecScenario == InitScenario /\ [][NextScenario]_vars


\* --------------------------------- the consolidated dataset on its own
\* what the API can hold for a series at different times
Payloads == {"v1", "v2"}

InitMerge ==
    /\ Init
    /\ Len(api_keys) = 1
    /\ quotaFile = NoQuotaFile
    /\ max_batches_arg = 0

\* BLSBatchProcessor.__init__, lines 27-31: the file exists and is left alone
NewProcessor ==
    /\ runs < MaxRuns
    /\ runs' = runs + 1
    /\ UNCHANGED <<files, pc, caller, tracker, sched, pb, gsd, hist, probe,
                   media, audit, calls>>
    /\ UNCHANGED pipe

\* process_batch, lines 139-148, for a consolidated_data holding payload for
\* the ids S of one batch
MergeBatch(S, payload) ==
    /\ Len(merged) < MaxMerges
    /\ runs > 0
    /\ S # {}
    /\ Cardinality(S) <= BatchSize
    /\ consolidated' = MergeConsolidated(consolidated, S, payload)
    /\ merged' = Append(merged, [ids |-> S, payload |-> payload])
    /\ UNCHANGED <<quotaFile, progressFile, api_keys, series_df, max_batches_arg,
                   runs, pc, caller, tracker, sched, pb, gsd, hist, probe,
                   torn, clock, audit, calls>>
    /\ UNCHANGED pipe

NextMerge ==
    \/ NewProcessor
    \/ \E S \in SUBSET Ids, payload \in Payloads : MergeBatch(S, payload)

SpecMerge == InitMerge /\ [][NextMerge]_vars

\* ------------------------------------------------------------ the pipeline
\* scripts/run_pipeline.py: PipelineRunner and the steps it runs

\* get_pipeline_steps: the step numbers, in the order of the list
pipeline_steps == [j \in 1..MaxSteps |-> j]

\* what subprocess.run can come to: the script's exit code, or an exception
\* raised before there is one
ScriptRun(raised, returncode) == [raised |-> raised, returncode |-> returncode]
ScriptRuns == {ScriptRun(FALSE, 0), ScriptRun(FALSE, 1), ScriptRun(TRUE, 0)}

\* run_script taking any exit code for a success
run_script_AnyExit(r) == ~r.raised

\* run_script, lines 44-74: the success it returns
run_script(r) == ~r.raised /\ r.returncode = 0

\* lines 81-88: the steps between start_step and end_step
StepsToRun(s, e) ==
    LET last == IF e = NoEnd THEN Len(pipeline_steps) ELSE e
    IN  SelectSeq(pipeline_steps, LAMBDA st : s <= st /\ st <= last)

\* the arguments --start-step and --end-step can give
StartSteps == 0..(MaxSteps + 1)
EndSteps == {NoEnd} \cup 0..(MaxSteps + 1)

InitPipeline ==
    /\ api_keys = <<1>>
    /\ series_df = AllSeries
    /\ max_batches_arg = 0
    /\ quotaFile = NoQuotaFile
    /\ progressFile = EmptyMap
    /\ consolidated = EmptyMap
    /\ runs = 0
    /\ lastCompleted = FALSE
    /\ torn = {}
    /\ clock = 1
    /\ merged = <<>>
    /\ NoProcess

\* run_pipeline(start_step, end_step), lines 76-101, with the scripts of E on disk
RunPipeline(s, e, E) ==
    /\ ppc = "idle"
    /\ start_step' = s
    /\ end_step' = e
    /\ script_exists' = E
    /\ steps_to_run' = StepsToRun(s, e)
    /\ all_successful' = TRUE
    /\ executed' = <<>>
    /\ IF StepsToRun(s, e) = <<>>
       THEN /\ pipeline_results' = PipelineResults(EmptyMap, "error")
            /\ step_index' = 0
            /\ ppc' = "returned"
       ELSE /\ pipeline_results' = PipelineResults(EmptyMap, "none")
            /\ step_index' = 1
            /\ ppc' = "steps"
    /\ UNCHANGED extraction

\* one pass of the for loop, lines 103-137
RunStep ==
    /\ ppc = "steps"
    /\ LET step_num == steps_to_run[step_index]
           next == IF step_index < Len(steps_to_run) THEN "steps" ELSE "summary"
       IN  IF step_num \notin script_exists
           THEN /\ pipeline_results' =
                     PipelineResults(Put(pipeline_results.steps, step_num,
                                         StepEntry("error", "Script not found")),
                                     pipeline_results.status)
                /\ all_successful' = FALSE
                /\ step_index' = step_index + 1
                /\ ppc' = next
                /\ UNCHANGED executed
           ELSE \E r \in ScriptRuns :
                /\ executed' = Append(executed, [step |-> step_num, run |-> r])
                /\ pipeline_results' =
                     PipelineResults(Put(pipeline_results.steps, step_num,
                                         IF run_script(r) THEN StepEntry("success", "")
                                         ELSE StepEntry("error", "stderr")),
                                     pipeline_results.status)
                /\ IF run_script(r)
                   THEN /\ step_index' = step_index + 1
                        /\ ppc' = next
                        /\ UNCHANGED all_successful
                   ELSE /\ all_successful' = FALSE
                        /\ ppc' = "summary"
                        /\ UNCHANGED step_index
    /\ UNCHANGED <<start_step, end_step, script_exists, steps_to_run>>
    /\ UNCHANGED extraction

\* lines 139-170
FinishPipeline ==
    /\ ppc = "summary"
    /\ pipeline_results' =
         PipelineResults(pipeline_results.steps,
                         IF all_successful THEN "success" ELSE "error")
    /\ ppc' = "returned"
    /\ UNCHANGED <<start_step, end_step, script_exists, steps_to_run, step_index,
                   all_successful, executed>>
    /\ UNCHANGED extraction

NextPipeline ==
    \/ \E s \in StartSteps, e \in EndSteps, E \in SUBSET SeqToSet(pipeline_steps) :
          RunPipeline(s, e, E)
    \/ RunStep
    \/ FinishPipeline

SpecPipeline == InitPipeline /\ [][NextPipeline]_vars



\* ------------------------------------------------------------------ claims
BatchIds == SeqToSet(batch)

\* C1: process_batch returns exactly one entry per identifier of the batch,
\* each marked success or error, on every path (full response, partial
\* response, quota pre-check, exception); an identifier the response leaves
\* out is an error, and 'Series not found in API response' when the response
\* is a series list of batch identifiers.
C1_NoSilentDrops ==
    pc = "pb_return" =>
        /\ DOMAIN batch_results = BatchIds
        /\ Cardinality(DOMAIN batch_results) = Len(batch)
        /\ \A s \in DOMAIN batch_results : batch_results[s].status \in {"success", "error"}
        /\ outcome.kind = "data" =>
             \A s \in BatchIds \ outcome.resp.series : batch_results[s].status = "error"
        /\ (outcome.kind = "data" /\ outcome.resp.kind = "series" /\ ~outcome.resp.foreign) =>
             \A s \in BatchIds \ outcome.resp.series :
                 batch_results[s] = Failure(SeriesNotFound)

\* C1 witness: process_batch returns from a partial response
C1_PartialResponse ==
    /\ pc = "pb_return"
    /\ outcome.kind = "data"
    /\ outcome.resp.kind = "series"
    /\ ~outcome.resp.foreign
    /\ outcome.resp.series # {}
    /\ outcome.resp.series # BatchIds
    /\ \E s \in BatchIds : batch_results[s].status = "success"

\* C2 (as claimed): at the start of a run every identifier of the input whose
\* persisted status is error is in the work list again.
C2_ErrorsRetried ==
    (caller = "extract" /\ pc = "loop" /\ i = 0) =>
        \A s \in SeqToSet(series_df) :
            (s \in DOMAIN progressFile /\ progressFile[s].status = "error")
                => s \in SeqToSet(series_list)

\* C3: no request of extract_series_data holds an identifier that the
\* persisted progress records as success.
C3_SuccessNeverRefetched ==
    (caller = "extract" /\ pc \in {"request", "response"}) =>
        \A s \in BatchIds :
            ~(s \in DOMAIN progressFile /\ progressFile[s].status = "success")

\* C3 witness: a later run sends a request while the progress file holds successes
C3_LaterRunRequests ==
    /\ caller = "extract"
    /\ pc = "request"
    /\ runs > 1
    /\ \E s \in SeqToSet(series_df) :
          s \in DOMAIN progressFile /\ progressFile[s].status = "success"

\* C4 (as claimed): a request that reached the API adds one to the count of
\* the credential used, whatever the API answered.
C4_EveryReachedRequestCounted ==
    [][(pc = "response" /\ Reached(resp) /\ pc' # "idle") =>
          LET api_key == stack[Len(stack)]
          IN  Get(counts', api_key) = Get(counts, api_key) + 1]_vars

\* C5 (as claimed): one get_series_data call attempts at most N credentials.
C5_AtMostNAttempts == Len(stack) <= Len(api_keys)

\* the first key at or after index start, cyclically, that can make a request
FirstAvailable(keys, start, c) ==
    LET n == Len(keys)
        at(d) == keys[((start - 1 + d) % n) + 1]
        ds == {d \in 0..(n - 1) : can_make_request(c, at(d))}
    IN  IF ds = {} THEN NoKey
        ELSE at(CHOOSE d \in ds : \A e \in ds : d <= e)

\* C6 (as claimed): get_available_api_key probes at most N credentials,
\* returns the first one below the limit, and None only when every credential
\* of the pool is exhausted, for any list of keys.
C6_RotationComplete ==
    pc = "probed" =>
        /\ probe.probes <= Len(api_keys)
        /\ probe.key = FirstAvailable(api_keys, probe.start, counts)
        /\ probe.key = NoKey =>
             \A j \in 1..Len(api_keys) : ~can_make_request(counts, api_keys[j])

\* C7: a run that follows a run that went through all its batches, on the same
\* input, has an empty work list, never reaches process_batch or the API, and
\* leaves the progress file and the consolidated dataset as they were.
C7_Idempotent ==
    [][prevDone' =>
          /\ series_list' = <<>>
          /\ pc' \in {"loop", "returned"}
          /\ progressFile' = progressFile
          /\ consolidated' = consolidated]_vars

\* C7 witness: the second run has returned
C7_SecondRunReturned ==
    /\ prevDone
    /\ pc = "returned"
    /\ stop = "done"
    /\ DOMAIN progressFile = SeqToSet(series_df)

\* the identifiers of the batches this run has attempted
Attempted ==
    SeqToSet(SubSeq(series_list, 1, IF i < Len(series_list) THEN i ELSE Len(series_list)))
    \cup (IF stop = "api_limit" THEN BatchIds ELSE {})

\* C8 (as claimed): before the next batch starts and before
\* extract_series_data returns, the results of every batch attempted are in
\* the progress file.
C8_BatchResultsPersisted ==
    (caller = "extract" /\ pc \in {"loop", "returned"}) =>
        \A s \in Attempted :
            /\ s \in DOMAIN results
            /\ s \in DOMAIN progressFile
            /\ progressFile[s] = results[s]

\* C9 (as claimed): once a batch has failed because no credential was left,
\* the run enters no further batch.
C9_NoBatchAfterExhaustion ==
    quotaFailed => pc \notin {"pb_enter", "gsd", "request", "response"}

\* C10: a request is sent with a credential whose count is below the limit,
\* and no pool credential's count, in memory or in the quota file, exceeds
\* API_LIMIT.
C10_QuotaGate ==
    /\ \A j \in 1..Len(api_keys) :
          /\ Get(counts, api_keys[j]) <= API_LIMIT
          /\ Get(quotaFile.counts, api_keys[j]) <= API_LIMIT
    /\ pc \in {"request", "response"} =>
          Get(counts, stack[Len(stack)]) < API_LIMIT

\* C10 witness: a request succeeded with the last credential that had quota
C10_LastRequestUsed ==
    /\ pc = "pb_handle"
    /\ outcome.kind = "data"
    /\ \A j \in 1..Len(api_keys) : Get(counts, api_keys[j]) = API_LIMIT

\* C11 (as claimed): a step that kills a run of extract_series_data leaves the
\* progress file and the consolidated dataset readable and keeps every entry
\* the batches completed before it had written to them.
C11_CrashLosesInFlightOnly ==
    [][(caller = "extract" /\ pc \notin {"idle", "returned"} /\ pc' = "idle") =>
          /\ "progress" \notin torn'
          /\ "consolidated" \notin torn'
          /\ \A s \in DOMAIN progressFile :
                s \in DOMAIN progressFile' /\ progressFile'[s] = progressFile[s]
          /\ \A s \in DOMAIN consolidated : s \in DOMAIN consolidated']_vars

\* the merges that held identifier s
MergesOf(s) == {j \in 1..Len(merged) : s \in merged[j].ids}

\* C12: the consolidated dataset is a mapping with one entry per identifier
\* ever merged, and the entry of an identifier is the payload of the last merge
\* that held it: a merge replaces the entries of its own identifiers and leaves
\* every other entry as it was.
C12_LastWriteWins ==
    /\ DOMAIN consolidated = {s \in Ids : MergesOf(s) # {}}
    /\ \A s \in DOMAIN consolidated :
          LET last == CHOOSE j \in MergesOf(s) : \A k \in MergesOf(s) : k <= j
          IN  consolidated[s] = merged[last].payload

\* C12 witness: a second merge has replaced one entry and left another alone
C12_EntryReplaced ==
    /\ Len(merged) = 2
    /\ merged[1].payload # merged[2].payload
    /\ \E s \in merged[1].ids \cap merged[2].ids : consolidated[s] = merged[2].payload
    /\ \E s \in merged[1].ids \ merged[2].ids : consolidated[s] = merged[1].payload

\* the batch failed and the quota was not the reason: the request did not get
\* through, was rejected for another reason than the daily threshold, or came
\* back without a usable series list
NonQuotaFailure(o) ==
    \/ /\ o.kind = "exception"
       /\ \/ o.resp.kind \in {"transport", "no_results"}
          \/ o.resp.kind = "rejected" /\ ~o.resp.dt
    \/ /\ o.kind = "data"
       /\ o.resp.kind = "no_series" \/ o.resp.foreign

\* C13: when a batch of extract_series_data fails for another reason than the
\* quota, the run goes on: every identifier of the batch is written to the
\* progress file as error, the loop moves to the next batch, and if there is
\* one within max_batches and the tracker still lists a credential below the
\* limit (the stop conditions of the loop after any batch), process_batch is
\* entered for it and calls get_series_data.
C13_FailureDoesNotAbort ==
    [][(caller = "extract" /\ NonQuotaFailure(outcome) /\ pc' # "idle") =>
          /\ pc = "pb_return" =>
                /\ pc' = "loop"
                /\ i' = i + BatchSize
                /\ \A s \in BatchIds :
                      s \in DOMAIN progressFile' /\ progressFile'[s].status = "error"
          /\ (/\ pc = "loop"
              /\ i < Len(series_list)
              /\ max_batches = 0 \/ (i \div BatchSize) + 1 <= max_batches
              /\ can_make_request_any(counts)) =>
                /\ pc' = "pb_enter"
                /\ batch' = BatchAt(series_list, i)
          /\ pc = "pb_enter" => pc' = "gsd"]_vars

\* C13 witness: the batch after a failed batch is entered
C13_NextBatchEntered ==
    /\ caller = "extract"
    /\ pc = "pb_enter"
    /\ NonQuotaFailure(outcome)
    /\ i = BatchSize
    /\ batch = BatchAt(series_list, i)
    /\ \A s \in SeqToSet(BatchAt(series_list, 0)) :
          s \in DOMAIN progressFile /\ progressFile[s].status = "error"

\* the count of key k a tracker of day d finds in the quota file
Persisted(k, d) == Get(LoadCount(quotaFile, "quota" \in torn, d).counts, k)

\* C14: whatever methods of a tracker are called in whatever order, the count
\* of every key, in memory and in the quota file the tracker has written or
\* loaded, is the count the tracker loaded plus the increment calls made for
\* that key.
C14_CountIsLoadPlusIncrements ==
    pc = "tracking" =>
        \A k \in TrackerKeys :
            /\ Get(counts, k) = Get(loaded, k) + Get(incs, k)
            /\ Persisted(k, today) = Get(loaded, k) + Get(incs, k)

\* C14 witness: N increments from zero, with errors set and queries made
C14_TwoFromZero ==
    /\ pc = "tracking"
    /\ answer.op = "get_status"
    /\ \E k \in TrackerKeys :
          /\ Get(loaded, k) = 0
          /\ Get(incs, k) = MaxIncs
          /\ Get(counts, k) = MaxIncs
          /\ quotaFile.counts[k] = MaxIncs
          /\ k \in DOMAIN last_errors
          /\ answer.key = k
          /\ answer.count = MaxIncs

\* C15 (as claimed): the count a tracker holds never decreases while the date
\* stays the same; a tracker loads the counts of a document of the day and zero
\* counts from a document of another day; and every document written carries
\* the date of the day it is written on.
C15_DailyReset ==
    [][pc' = "tracking" =>
          /\ (pc = "tracking" /\ clock' = clock) =>
                \A k \in TrackerKeys : Get(counts', k) >= Get(counts, k)
          /\ (pc = "idle" /\ "quota" \notin torn) =>
                counts' = IF quotaFile.date = clock THEN quotaFile.counts ELSE EmptyMap
          /\ quotaFile' # quotaFile => quotaFile'.date = clock']_vars

\* C16 (as claimed): whoever reads the quota file, at any moment, finds a
\* complete document.
C16_QuotaFileNeverPartial == "quota" \notin torn

\* C20: a tracker constructed when the quota file is missing or cut short
\* comes to life without an exception and holds no count: every key counts 0.
C20_LoadFailsSoft ==
    [][(pc = "idle" /\ runs' = runs + 1
          /\ (quotaFile.date = NoDate \/ "quota" \in torn)) =>
          /\ pc' = "tracking"
          /\ counts' = EmptyMap
          /\ \A k \in TrackerKeys : Get(counts', k) = 0]_vars

\* C20 witness: a tracker built on a quota file cut short, before it saves
C20_BuiltOnTornFile ==
    /\ pc = "tracking"
    /\ "quota" \in torn
    /\ counts = EmptyMap
    /\ runs > 1

\* C17: a request of get_series_data that fails before it reaches the server
\* leaves every count as it was, in the tracker and in the quota file.
C17_TransportFailureNotCounted ==
    [][(pc = "response" /\ resp.kind = "transport" /\ pc' # "idle") =>
          /\ counts' = counts
          /\ quotaFile'.counts = counts
          /\ incs' = incs]_vars

\* C17 witness: get_series_data has raised a transport failure, its error is
\* recorded and no count has moved
C17_TransportFailureRaised ==
    /\ pc = "pb_handle"
    /\ outcome.kind = "exception"
    /\ outcome.resp.kind = "transport"
    /\ last_errors # EmptyMap
    /\ counts # EmptyMap
    /\ counts = LoadedCounts
    /\ quotaFile.counts = counts

\* C18 (as claimed): a transport failure, in get_series_data as in
\* validate_series_batch, is answered by another attempt while fewer than
\* MAX_RETRIES retries have been made, and is reported to the caller only
\* after that.
C18_TransportFailureRetried ==
    [][(pc \in {"response", "v_response"} /\ resp.kind = "transport" /\ pc' # "idle") =>
          IF retry_count < MAX_RETRIES
          THEN /\ pc' \in {"gsd", "request", "v_key", "v_request"}
               /\ retry_count' = retry_count + 1
          ELSE pc' \in {"pb_handle", "v_returned"}]_vars

\* C19 (as claimed): a call whose start_year is after its end_year sends no
\* request and moves no count.
C19_PeriodValidated ==
    period.start_year > period.end_year =>
        /\ pc \notin {"request", "response"}
        /\ \A k \in DOMAIN counts : Get(incs, k) = 0

\* the identifiers of the first three batches of the scenario, and the others
ScenarioFirst == 1..(3 * BatchSize)
ScenarioRest == (3 * BatchSize + 1)..(5 * BatchSize)

AllSuccess(S) ==
    \A s \in S : s \in DOMAIN progressFile /\ progressFile[s].status = "success"

\* C21 (as claimed): with three credentials that have two requests left each,
\* the first run stops after batch 3 for want of quota, the identifiers of
\* batches 1 to 3 marked success and the others absent from the progress file.
C21_StopsAfterThreeOfSix ==
    (/\ runs = 1
     /\ pc = "returned"
     /\ \A k \in SeqToSet(ScenarioKeys) : Get(loaded, k) = API_LIMIT - 2) =>
        /\ stop = "quota"
        /\ DOMAIN progressFile = ScenarioFirst
        /\ AllSuccess(ScenarioFirst)

\* C21 (amended): a batch costs one request whatever its size.  With three
\* credentials that have one request left each (three requests in all), the
\* first run stops after batch 3 for want of quota, the identifiers of batches
\* 1 to 3 marked success and the others absent from the progress file; the
\* next run works on those others only, and when it starts on a later day,
\* with the counts reset, it carries them all to success.
C21_StopsAfterThreeOfThree ==
    /\ (/\ runs = 1
        /\ pc = "returned"
        /\ \A k \in SeqToSet(ScenarioKeys) : Get(loaded, k) = API_LIMIT - 1) =>
           /\ stop = "quota"
           /\ i = 3 * BatchSize
           /\ DOMAIN progressFile = ScenarioFirst
           /\ AllSuccess(ScenarioFirst)
           /\ \A k \in SeqToSet(ScenarioKeys) : counts[k] = API_LIMIT
    /\ (runs = 2 /\ caller = "extract" /\ ~prevDone) =>
           /\ SeqToSet(series_list) = ScenarioRest
           /\ pc \in {"request", "response"} => BatchIds \subseteq ScenarioRest
           /\ AllSuccess(ScenarioFirst)
    /\ (runs = 2 /\ pc = "returned" /\ ~prevDone /\ today > 1) =>
           /\ loaded = EmptyMap
           /\ stop = "done"
           /\ DOMAIN progressFile = ScenarioFirst \cup ScenarioRest
           /\ AllSuccess(ScenarioRest)

\* C21 witness: the run of the next day has finished the identifiers left over
C21_RestDoneNextDay ==
    /\ runs = 2
    /\ pc = "returned"
    /\ ~prevDone
    /\ loaded = EmptyMap
    /\ today = 2
    /\ stop = "done"
    /\ AllSuccess(ScenarioFirst \cup ScenarioRest)
    /\ \E k \in SeqToSet(ScenarioKeys) : Get(counts, k) = 2

\* C22 (as claimed): after a rejection for the daily threshold, the request
\* that follows in the same get_series_data call goes out with a credential
\* other than the rejected one; and when rotate_api_key fails the call ends in
\* the daily-threshold error without another request.
C22_RetryWithOtherCredential ==
    /\ (pc = "request" /\ Len(stack) >= 2) =>
           stack[Len(stack)] # stack[Len(stack) - 1]
    /\ (/\ pc = "pb_handle"
        /\ outcome.kind = "exception"
        /\ outcome.resp.kind = "rejected"
        /\ outcome.resp.dt
        /\ ~rotate_api_key(api_keys, current_key_index).ok) =>
           HasDailyThreshold(outcome.msg)

\* every credential of the pool is at its limit
PoolExhausted == \A j \in 1..Len(api_keys) : ~can_make_request(counts, api_keys[j])

\* C23 (as claimed): rotate_api_key moves the index to (index + 1) mod N, and
\* the rotation that brings the index back to where the rotations started,
\* with no credential of the pool below its limit, returns False.
C23_RotateSignalsExhaustion ==
    (pc = "idle" /\ probe.probes > 0) =>
        /\ current_key_index =
             ((probe.start - 1 + probe.probes) % Len(api_keys)) + 1
        /\ (current_key_index = probe.start /\ PoolExhausted) => ~answer.ok

\* line 168: the number of batches of a work list
total_batches(sl) == (Len(sl) + BatchSize - 1) \div BatchSize

\* the n-th batch the loop of line 174 builds, n counted from 1
NthBatch(sl, n) == BatchAt(sl, (n - 1) * BatchSize)

\* the first n batches, one after the other
RECURSIVE ConcatBatches(_, _)
ConcatBatches(sl, n) ==
    IF n = 0 THEN <<>> ELSE ConcatBatches(sl, n - 1) \o NthBatch(sl, n)

\* C24: the batches of extract_series_data partition the work list: one after
\* the other they give the work list back in its order, each holds between one
\* and batch_size identifiers, every identifier of the work list is in exactly
\* one of them, and the batch in hand is the one at the loop's offset.
C24_BatchesPartition ==
    caller = "extract" =>
        /\ ConcatBatches(series_list, total_batches(series_list)) = series_list
        /\ \A n \in 1..total_batches(series_list) :
               Len(NthBatch(series_list, n)) \in 1..BatchSize
        /\ \A j \in 1..Len(series_list) :
               Cardinality({n \in 1..total_batches(series_list) :
                              series_list[j] \in SeqToSet(NthBatch(series_list, n))}) = 1
        /\ pc \in {"pb_enter", "gsd", "request", "response", "pb_handle", "pb_return"} =>
               /\ i % BatchSize = 0
               /\ i < Len(series_list)
               /\ batch = NthBatch(series_list, (i \div BatchSize) + 1)

\* C24 witness: the second, shorter batch of a work list is being requested
C24_ShortLastBatch ==
    /\ caller = "extract"
    /\ pc = "request"
    /\ i = BatchSize
    /\ Len(batch) < BatchSize
    /\ batch = SubSeq(series_list, BatchSize + 1, Len(series_list))

\* C25 (as claimed): extract_series_data hands a batch to process_batch only
\* while a credential of the pool can make a request, and a batch has its
\* identifiers recorded as errors for want of a credential in no run.
C25_StopCheckAgreesWithPool ==
    caller = "extract" =>
        /\ pc = "pb_enter" => ~PoolExhausted
        /\ (pc = "pb_return" /\ outcome.kind = "exception"
              /\ outcome.resp = NoResponse) => ~PoolExhausted

\* C26 (as claimed): in every state, across runs and crashes, every identifier
\* the progress file marks success has an entry in the consolidated dataset.
C26_SuccessHasData ==
    \A s \in DOMAIN progressFile :
        progressFile[s].status = "success" => s \in DOMAIN consolidated

\* C27 (as claimed): process_batch writes the payload of an identifier into
\* the consolidated dataset only if its batch result reports the identifier
\* as success, a response that names a series outside the batch included.
C27_WrittenOnlyIfSuccess ==
    pc = "pb_return" =>
        \A s \in consolidated_data_of(outcome) :
            /\ s \in DOMAIN consolidated
            /\ s \in DOMAIN batch_results
            /\ batch_results[s].status = "success"

\* C28 (as claimed): when extract_series_data returns, the mapping it returns
\* is the content of the progress file, a run stopped by a daily-threshold
\* failure included.
C28_ReturnedIsPersisted ==
    (caller = "extract" /\ pc = "returned") => results = progressFile

\* C29 (as claimed): validate_series_batch makes at most MAX_RETRIES + 1
\* attempts, and whatever path it returns by, it returns a boolean verdict for
\* every series id of the batch.
C29_VerdictForEverySeries ==
    (caller = "validate" /\ pc = "v_returned") =>
        /\ retry_count + 1 <= MAX_RETRIES + 1
        /\ \A s \in SeqToSet(batch) :
               s \in DOMAIN verdicts /\ verdicts[s] \in BOOLEAN

\* the steps start_step and end_step select
SelectedSteps ==
    {st \in SeqToSet(pipeline_steps) :
        start_step <= st /\ st <= (IF end_step = NoEnd THEN Len(pipeline_steps) ELSE end_step)}

\* the script of step st was run and exited with code 0
ExitedZero(st) ==
    \E a \in DOMAIN executed :
        /\ executed[a].step = st
        /\ ~executed[a].run.raised
        /\ executed[a].run.returncode = 0

\* the scripts run are scripts of selected steps, in increasing step order, and
\* none is run after one that did not exit with code 0
RunsInOrderUntilFailure ==
    /\ \A a \in DOMAIN executed : executed[a].step \in SelectedSteps
    /\ \A a, b \in DOMAIN executed : a < b => executed[a].step < executed[b].step
    /\ \A a \in DOMAIN executed : a < Len(executed) => ExitedZero(executed[a].step)

\* C30 (as claimed): run_pipeline runs the selected steps in increasing step
\* order and no step after one whose script exited non-zero; the status it
\* returns is success if and only if the script of every selected step existed
\* and exited zero.
C30_StatusIffAllStepsPassed ==
    /\ RunsInOrderUntilFailure
    /\ ppc = "returned" =>
         (pipeline_results.status = "success" <=>
            \A st \in SelectedSteps : st \in script_exists /\ ExitedZero(st))

\* C30 (amended): as above, and the status is success if and only if at least
\* one step is selected and the script of every selected step existed and
\* exited zero; with no step selected run_pipeline returns the status error.
C30_StatusIffSelectedAndPassed ==
    /\ RunsInOrderUntilFailure
    /\ ppc = "returned" =>
         (pipeline_results.status = "success" <=>
            /\ SelectedSteps # {}
            /\ \A st \in SelectedSteps : st \in script_exists /\ ExitedZero(st))
    /\ (ppc = "returned" /\ SelectedSteps = {}) =>
         pipeline_results.status = "error" /\ executed = <<>>

\* C30 witness: a script exited non-zero after an earlier one had passed, a
\* selected step was left unrun, and the status returned is error
C30_StoppedAtFailure ==
    /\ ppc = "returned"
    /\ pipeline_results.status = "error"
    /\ Len(executed) >= 2
    /\ ~executed[Len(executed)].run.raised
    /\ executed[Len(executed)].run.returncode # 0
    /\ \E st \in SelectedSteps :
          st > executed[Len(executed)].step /\ st \in script_exists

====
